---- MODULE Spec2Model ----
(***************************************************************************)
(* Model of transformers/run_eval.py: the command line block (lines        *)
(* 122-177), main (lines 14-119) and its closure benchmark (lines 36-84).  *)
(*                                                                         *)
(* Units.  An audio array is modelled by its length; lengths are taken     *)
(* around the feature extractor's n_samples (below, at, above).  The       *)
(* column audio_length_s of a sample is that same length (sampling rate    *)
(* scaled to 1).  Wall-clock times are exact rationals <<num, den>> in     *)
(* lowest terms; Python computes them in binary floating point, whose      *)
(* rounding is not modelled.                                               *)
(***************************************************************************)
EXTENDS Integers, Sequences, FiniteSets, TLC

VARIABLES
    pc,               \* position of the script
    argv,             \* history: the command line that was parsed
    parser_defaults,  \* argparse: default of dest "streaming" held by the parser
    args,             \* the parsed namespace handed to main
    model,            \* the loaded checkpoint (can_generate, generation_config)
    gen_kwargs,       \* main's local gen_kwargs: bound or not, and its keys
    loaded,           \* history: the dataset as load_data returned it
    dataset,          \* main's local dataset
    cursor,           \* number of samples of dataset already given to benchmark
    mapped,           \* rows produced by dataset.map and not yet iterated
    all_results,      \* the four accumulator lists
    batch_log,        \* history: one entry per call of benchmark
    manifest,         \* the manifests written so far
    events,           \* history: manifest write, prints, metric computations
    rtfx,             \* the quotient of line 118 before rounding
    failure           \* the exception that ended the run, if any

vars == <<pc, argv, parser_defaults, args, model, gen_kwargs, loaded, dataset, cursor,
          mapped, all_results, batch_log, manifest, events, rtfx, failure>>

----------------------------------------------------------------------------
(* Bounds of the model *)

MaxSamples == 3

MaxBatchSize == 2

MaxRuntime == 2

(* processor.feature_extractor.n_samples, in model units *)
n_samples == 2

AudioLens == {n_samples - 1, n_samples, n_samples + 1}

None == <<>>

Some(x) == <<x>>

Val(o) == o[1]

----------------------------------------------------------------------------
(* Exact rationals *)

RECURSIVE Gcd(_, _)
Gcd(a, b) == IF b = 0 THEN a ELSE Gcd(b, a % b)

Rat(n, d) == LET g == Gcd(n, d) IN IF g = 0 THEN <<0, 1>> ELSE <<n \div g, d \div g>>

RatAdd(p, q) == Rat(p[1] * q[2] + q[1] * p[2], p[2] * q[2])

RECURSIVE SumRat(_)
SumRat(s) == IF s = <<>> THEN <<0, 1>> ELSE RatAdd(Head(s), SumRat(Tail(s)))

RECURSIVE SumInt(_)
SumInt(s) == IF s = <<>> THEN 0 ELSE Head(s) + SumInt(Tail(s))

Min(a, b) == IF a < b THEN a ELSE b

----------------------------------------------------------------------------
(* Inputs *)

Argvs ==
    [no_streaming : BOOLEAN,
     max_eval_samples : {None} \cup {Some(n) : n \in -1 .. MaxSamples},
     batch_size : 1 .. MaxBatchSize]

Checkpoints ==
    {[loaded |-> TRUE, can_generate |-> FALSE, is_multilingual |-> "missing"],
     [loaded |-> TRUE, can_generate |-> TRUE, is_multilingual |-> "missing"],
     [loaded |-> TRUE, can_generate |-> TRUE, is_multilingual |-> "no"],
     [loaded |-> TRUE, can_generate |-> TRUE, is_multilingual |-> "yes"]}

Sample(i, a) == [id |-> i, audio |-> a, audio_length_s |-> a, text |-> i]

Sources ==
    UNION {{[i \in 1 .. n |-> Sample(i, f[i])] : f \in [1 .. n -> AudioLens]} :
           n \in 0 .. MaxSamples}

----------------------------------------------------------------------------
Init ==
    /\ pc = "parse_args"
    /\ argv = [no_streaming |-> FALSE, max_eval_samples |-> None, batch_size |-> 1]
    /\ parser_defaults = [streaming |-> TRUE]
    /\ args = [streaming |-> TRUE, max_eval_samples |-> None, batch_size |-> 1]
    /\ model = [loaded |-> FALSE, can_generate |-> FALSE, is_multilingual |-> "missing"]
    /\ gen_kwargs = [bound |-> FALSE, keys |-> {}]
    /\ loaded = <<>>
    /\ dataset = <<>>
    /\ cursor = 0
    /\ mapped = <<>>
    /\ all_results = [audio_length_s |-> <<>>, transcription_time_s |-> <<>>,
                      predictions |-> <<>>, references |-> <<>>]
    /\ batch_log = <<>>
    /\ manifest = <<>>
    /\ events = <<>>
    /\ rtfx = <<0, 1>>
    /\ failure = [stage |-> "none", kind |-> "none"]

(* parser.parse_args(): store_false writes False when the flag is given,
   otherwise the namespace gets the default the parser holds at that time *)
ParseArgs ==
    /\ pc = "parse_args"
    /\ \E a \in Argvs :
         /\ argv' = a
         /\ args' = [streaming |-> IF a.no_streaming THEN FALSE
                                   ELSE parser_defaults.streaming,
                     max_eval_samples |-> a.max_eval_samples,
                     batch_size |-> a.batch_size]
    /\ pc' = "set_defaults"
    /\ UNCHANGED <<loaded, parser_defaults, model, gen_kwargs, dataset, cursor, mapped,
                   all_results, batch_log, manifest, events, rtfx, failure>>

(* a set_defaults that also rewrites the namespace already parsed *)
SetDefaultsRewritesArgs ==
    /\ pc = "set_defaults"
    /\ parser_defaults' = [parser_defaults EXCEPT !.streaming = FALSE]
    /\ args' = [args EXCEPT !.streaming = FALSE]
    /\ pc' = "load_model"
    /\ UNCHANGED <<argv, loaded, model, gen_kwargs, dataset, cursor, mapped,
                   all_results, batch_log, manifest, events, rtfx, failure>>

(* parser.set_defaults(streaming=False): changes the parser, not the namespace *)
SetDefaults ==
    /\ pc = "set_defaults"
    /\ parser_defaults' = [parser_defaults EXCEPT !.streaming = FALSE]
    /\ pc' = "load_model"
    /\ UNCHANGED <<argv, loaded, args, model, gen_kwargs, dataset, cursor, mapped,
                   all_results, batch_log, manifest, events, rtfx, failure>>

(* lines 15-19: config, model class, weights, processor.  The checkpoint
   fixes what model.can_generate() answers for the rest of the run *)
LoadModel ==
    /\ pc = "load_model"
    /\ \E m \in Checkpoints : model' = m
    /\ pc' = "gen_kwargs"
    /\ UNCHANGED <<argv, loaded, parser_defaults, args, gen_kwargs, dataset, cursor, mapped,
                   all_results, batch_log, manifest, events, rtfx, failure>>

(* gen_kwargs first assigned inside the is_multilingual branch *)
GenKwargsOnlyMultilingual(m) ==
    IF m.can_generate /\ m.is_multilingual = "yes"
    THEN [bound |-> TRUE, keys |-> {"max_new_tokens", "language", "task"}]
    ELSE [bound |-> FALSE, keys |-> {}]

(* lines 21-26: the value of the local gen_kwargs after the block *)
GenKwargsAtSetup(m) ==
    IF m.can_generate
    THEN [bound |-> TRUE,
          keys |-> IF m.is_multilingual = "yes"
                   THEN {"max_new_tokens", "language", "task"}
                   ELSE {"max_new_tokens"}]
    ELSE [bound |-> FALSE, keys |-> {}]

(* lines 21-26; getattr without a default raises when generation_config has
   no attribute is_multilingual *)
SetGenKwargs ==
    /\ pc = "gen_kwargs"
    /\ IF model.can_generate /\ model.is_multilingual = "missing"
       THEN /\ pc' = "aborted"
            /\ failure' = [stage |-> "gen_kwargs", kind |-> "AttributeError"]
            /\ gen_kwargs' = [bound |-> TRUE, keys |-> {"max_new_tokens"}]
       ELSE /\ pc' = "load_data"
            /\ gen_kwargs' = GenKwargsAtSetup(model)
            /\ UNCHANGED failure
    /\ UNCHANGED <<argv, loaded, parser_defaults, args, model, dataset, cursor, mapped,
                   all_results, batch_log, manifest, events, rtfx>>

(* line 28: data_utils.load_data(args) *)
LoadData ==
    /\ pc = "load_data"
    /\ \E src \in Sources : dataset' = src /\ loaded' = src
    /\ pc' = "subsample"
    /\ UNCHANGED <<argv, parser_defaults, args, model, gen_kwargs, cursor, mapped,
                   all_results, batch_log, manifest, events, rtfx, failure>>

(* dataset.take(n): the first n samples, all of them when there are fewer *)
Take(ds, n) == SubSeq(ds, 1, Min(n, Len(ds)))

(* a cap test that lets 0 through *)
SubsampledFromZero(ds, cap) ==
    IF cap # None /\ Val(cap) >= 0 THEN Take(ds, Val(cap)) ELSE ds

(* lines 30-32 *)
Subsampled(ds, cap) ==
    IF cap # None /\ Val(cap) > 0 THEN Take(ds, Val(cap)) ELSE ds

Subsample ==
    /\ pc = "subsample"
    /\ dataset' = Subsampled(dataset, args.max_eval_samples)
    /\ events' = IF args.max_eval_samples # None /\ Val(args.max_eval_samples) > 0
                 THEN Append(events, [op |-> "print_subsampling", n |-> Val(args.max_eval_samples)])
                 ELSE events
    /\ pc' = "prepare_data"
    /\ UNCHANGED <<argv, loaded, parser_defaults, args, model, gen_kwargs, cursor, mapped,
                   all_results, batch_log, manifest, rtfx, failure>>

(* data_utils.normalizer: text to normalized text *)
Normalizer(t) == <<"normalized", t>>

(* data_utils.prepare_data: every sample kept, in order, with its norm_text *)
PrepareData ==
    /\ pc = "prepare_data"
    /\ dataset' = [i \in 1 .. Len(dataset) |->
                     [id |-> dataset[i].id, audio |-> dataset[i].audio,
                      audio_length_s |-> dataset[i].audio_length_s,
                      norm_text |-> Normalizer(dataset[i].text)]]
    /\ pc' = "map"
    /\ UNCHANGED <<argv, loaded, parser_defaults, args, model, gen_kwargs, cursor, mapped,
                   all_results, batch_log, manifest, events, rtfx, failure>>

----------------------------------------------------------------------------
(* benchmark, lines 36-84 *)

(* the runtime divided by the configured batch size *)
TranscriptionTimesByBatchSize(runtime, minibatch_size) ==
    [i \in 1 .. minibatch_size |-> Rat(runtime, args.batch_size)]

(* line 79: minibatch_size * [runtime / minibatch_size] *)
TranscriptionTimes(runtime, minibatch_size) ==
    [i \in 1 .. minibatch_size |-> Rat(runtime, minibatch_size)]

(* line 45: the condition choosing pre-processing 1.1 over 1.2 *)
Untruncated(audios) == ~model.can_generate \/ audios[1] > n_samples

(* the text the model decodes: what it was given of the audio, and how it
   decoded (the generation arguments, or the arg-max of one forward pass) *)
PredText(heard, decoder) == [heard |-> heard, decoder |-> decoder]

(* Lines 38-83 on a non-empty batch whose inference took runtime.
   error: whether line 65 read an unbound gen_kwargs;
   rows: the returned columns, per sample, without the removed audio column;
   entry: what the call did *)
Columns(batch, runtime) ==
    LET audios == [i \in 1 .. Len(batch) |-> batch[i].audio]
        minibatch_size == Len(audios)
        untruncated == Untruncated(audios)
        heard == [i \in 1 .. minibatch_size |->
                    IF untruncated THEN audios[i] ELSE Min(audios[i], n_samples)]
        unbound == model.can_generate /\ ~gen_kwargs.bound
        decoder == IF model.can_generate THEN gen_kwargs.keys ELSE {"argmax"}
        times == TranscriptionTimes(runtime, minibatch_size)
        predictions == [i \in 1 .. minibatch_size |->
                          Normalizer(PredText(heard[i], decoder))]
        references == [i \in 1 .. minibatch_size |-> batch[i].norm_text]
    IN  [error |-> unbound,
         rows |-> [i \in 1 .. minibatch_size |->
                     [id |-> batch[i].id,
                      audio_length_s |-> batch[i].audio_length_s,
                      transcription_time_s |-> times[i],
                      predictions |-> predictions[i],
                      references |-> references[i]]],
         entry |-> [ids |-> [i \in 1 .. minibatch_size |-> batch[i].id],
                    audios |-> audios,
                    norm_text |-> references,
                    path |-> IF untruncated THEN "untruncated" ELSE "fixed_length",
                    consulted_n_samples |-> model.can_generate,
                    branch |-> IF model.can_generate THEN "generate"
                               ELSE "forward_argmax",
                    read_gen_kwargs |-> model.can_generate,
                    runtime |-> runtime,
                    times |-> times,
                    predictions |-> predictions,
                    gen_kwargs |-> gen_kwargs,
                    references |-> references]]

(* a benchmark that stores the language in the shared gen_kwargs *)
BenchmarkSetsLanguage(batch, runtime) ==
    Columns(batch, runtime) @@
    [gen_kwargs |-> [gen_kwargs EXCEPT !.keys = @ \cup {"language", "task"}]]

(* One call of benchmark: its columns, and the enclosing local gen_kwargs
   after the call; no line of benchmark assigns it or changes its keys *)
Benchmark(batch, runtime) ==
    Columns(batch, runtime) @@ [gen_kwargs |-> gen_kwargs]

(* the batch dataset.map hands to benchmark next: batch_size samples, fewer at the end *)
NextBatch == SubSeq(dataset, cursor + 1, Min(cursor + args.batch_size, Len(dataset)))

Runtimes == 1 .. MaxRuntime

(* what a call of benchmark leaves behind, an exception included *)
CallBenchmark(out, rest) ==
    /\ batch_log' = Append(batch_log, out.entry)
    /\ gen_kwargs' = out.gen_kwargs
    /\ IF out.error
       THEN /\ pc' = "aborted"
            /\ failure' = [stage |-> pc, kind |-> "NameError"]
            /\ UNCHANGED <<cursor, mapped, all_results>>
       ELSE /\ cursor' = cursor + Len(out.rows)
            /\ rest
            /\ UNCHANGED failure

(* lines 86-88 on a streamed dataset: map is lazy, nothing runs yet *)
MapLazy ==
    /\ pc = "map"
    /\ args.streaming
    /\ pc' = "collect"
    /\ UNCHANGED <<argv, loaded, parser_defaults, args, model, gen_kwargs, dataset,
                   cursor, mapped, all_results, batch_log, manifest, events, rtfx, failure>>

(* lines 86-88 on a downloaded dataset: map runs benchmark on each batch now *)
MapBatch ==
    /\ pc = "map"
    /\ ~args.streaming
    /\ cursor < Len(dataset)
    /\ \E runtime \in Runtimes :
         LET out == Benchmark(NextBatch, runtime)
         IN  CallBenchmark(out, /\ mapped' = mapped \o out.rows
                                /\ UNCHANGED <<pc, all_results>>)
    /\ UNCHANGED <<argv, loaded, parser_defaults, args, model, dataset, manifest, events, rtfx>>

MapDone ==
    /\ pc = "map"
    /\ ~args.streaming
    /\ cursor = Len(dataset)
    /\ pc' = "collect"
    /\ UNCHANGED <<argv, loaded, parser_defaults, args, model, gen_kwargs, dataset,
                   cursor, mapped, all_results, batch_log, manifest, events, rtfx, failure>>

(* predictions inserted at the front, the other three appended *)
AppendResultPredictionsFirst(res, result) ==
    [audio_length_s |-> Append(res.audio_length_s, result.audio_length_s),
     transcription_time_s |-> Append(res.transcription_time_s, result.transcription_time_s),
     predictions |-> <<result.predictions>> \o res.predictions,
     references |-> Append(res.references, result.references)]

(* lines 98-99: result[key] appended to each of the four lists *)
AppendResult(res, result) ==
    [audio_length_s |-> Append(res.audio_length_s, result.audio_length_s),
     transcription_time_s |-> Append(res.transcription_time_s, result.transcription_time_s),
     predictions |-> Append(res.predictions, result.predictions),
     references |-> Append(res.references, result.references)]

(* a loop that ends as soon as no mapped row is waiting *)
ExhaustedWhenBufferEmpty == mapped = <<>>

(* the iterator of line 96 has nothing more to give *)
Exhausted == mapped = <<>> /\ cursor = Len(dataset)

(* lines 97-99, one iteration: the next row, from a batch already mapped or
   from a call of benchmark on the next batch of a streamed dataset *)
CollectStep ==
    /\ pc = "collect"
    /\ ~Exhausted
    /\ IF mapped # <<>>
       THEN /\ all_results' = AppendResult(all_results, Head(mapped))
            /\ mapped' = Tail(mapped)
            /\ UNCHANGED <<pc, cursor, batch_log, gen_kwargs, failure>>
       ELSE \E runtime \in Runtimes :
              LET out == Benchmark(NextBatch, runtime)
              IN  CallBenchmark(out, /\ all_results' = AppendResult(all_results, Head(out.rows))
                                     /\ mapped' = Tail(out.rows)
                                     /\ UNCHANGED pc)
    /\ UNCHANGED <<argv, loaded, parser_defaults, args, model, dataset, manifest, events, rtfx>>

CollectDone ==
    /\ pc = "collect"
    /\ Exhausted
    /\ pc' = "write_manifest"
    /\ UNCHANGED <<argv, loaded, parser_defaults, args, model, gen_kwargs, dataset,
                   cursor, mapped, all_results, batch_log, manifest, events, rtfx, failure>>

(* lines 102-112 *)
WriteManifest ==
    /\ pc = "write_manifest"
    /\ manifest' = Append(manifest, all_results)
    /\ events' = events \o <<[op |-> "write_manifest", n |-> Len(all_results.references)],
                            [op |-> "print_path", n |-> Len(manifest) + 1]>>
    /\ pc' = "metrics"
    /\ UNCHANGED <<argv, loaded, parser_defaults, args, model, gen_kwargs, dataset,
                   cursor, mapped, all_results, batch_log, rtfx, failure>>

(* lines 114-119 *)
ComputeMetrics ==
    /\ pc = "metrics"
    /\ LET audio == SumInt(all_results.audio_length_s)
           time == SumRat(all_results.transcription_time_s)
           wer == [op |-> "wer", n |-> Len(all_results.predictions)]
       IN  IF time[1] = 0
           THEN /\ pc' = "aborted"
                /\ failure' = [stage |-> "metrics", kind |-> "ZeroDivisionError"]
                /\ events' = Append(events, wer)
                /\ UNCHANGED rtfx
           ELSE /\ pc' = "done"
                /\ rtfx' = Rat(audio * time[2], time[1])
                /\ events' = events \o <<wer, [op |-> "print_summary", n |-> 1]>>
                /\ UNCHANGED failure
    /\ UNCHANGED <<argv, loaded, parser_defaults, args, model, gen_kwargs, dataset,
                   cursor, mapped, all_results, batch_log, manifest>>

(* the stages whose library calls can raise: loading, a batch about to be
   pre-processed and inferred, the manifest write, the metric *)
CanRaise ==
    \/ pc \in {"load_model", "load_data", "prepare_data", "write_manifest", "metrics"}
    \/ pc = "map" /\ ~args.streaming /\ cursor < Len(dataset)
    \/ pc = "collect" /\ mapped = <<>> /\ cursor < Len(dataset)

(* an exception of a batch that is caught: the batch is skipped, the run goes on *)
RaiseSkipsBatch ==
    /\ CanRaise
    /\ failure' = [stage |-> pc, kind |-> "LibraryError"]
    /\ IF pc \in {"map", "collect"}
       THEN /\ cursor' = Min(cursor + args.batch_size, Len(dataset))
            /\ UNCHANGED pc
       ELSE /\ pc' = "aborted"
            /\ UNCHANGED cursor
    /\ UNCHANGED <<argv, loaded, parser_defaults, args, model, gen_kwargs, dataset,
                   mapped, all_results, batch_log, manifest, events, rtfx>>

(* main has no try/except: an exception ends the run where it is raised *)
Raise ==
    /\ CanRaise
    /\ pc' = "aborted"
    /\ failure' = [stage |-> pc, kind |-> "LibraryError"]
    /\ UNCHANGED <<argv, loaded, parser_defaults, args, model, gen_kwargs, dataset,
                   cursor, mapped, all_results, batch_log, manifest, events, rtfx>>

Next ==
    \/ ParseArgs
    \/ SetDefaults
    \/ LoadModel
    \/ SetGenKwargs
    \/ LoadData
    \/ Subsample
    \/ PrepareData
    \/ MapLazy
    \/ MapBatch
    \/ MapDone
    \/ CollectStep
    \/ CollectDone
    \/ WriteManifest
    \/ ComputeMetrics
    \/ Raise

Spec == Init /\ [][Next]_vars

----------------------------------------------------------------------------
(* Properties *)

Collected == Len(all_results.references)

Cap == args.max_eval_samples

Positive(cap) == cap # None /\ Val(cap) > 0

AfterCollect == {"write_manifest", "metrics", "done"}

(* the entries of batch_log in which sample id was processed, with its place *)
Processed(id) ==
    {<<k, j>> \in (1 .. Len(batch_log)) \X (1 .. MaxBatchSize) :
        j <= Len(batch_log[k].ids) /\ batch_log[k].ids[j] = id}

(* C1: after every step of the collection loop the four lists have the same
   length, entry i of each belongs to the i-th sample of the dataset, in
   dataset order; after the loop each list has one entry per sample. *)
C1_ListsAligned ==
    /\ Len(all_results.audio_length_s) = Collected
    /\ Len(all_results.transcription_time_s) = Collected
    /\ Len(all_results.predictions) = Collected
    /\ Collected <= Len(dataset)
    /\ \A i \in 1 .. Collected :
         /\ all_results.audio_length_s[i] = dataset[i].audio_length_s
         /\ all_results.references[i] = dataset[i].norm_text
         /\ Cardinality(Processed(dataset[i].id)) = 1
         /\ \A kj \in Processed(dataset[i].id) :
              /\ all_results.predictions[i] = batch_log[kj[1]].predictions[kj[2]]
              /\ all_results.transcription_time_s[i] = batch_log[kj[1]].times[kj[2]]
    /\ pc \in AfterCollect => Collected = Len(dataset)

C1_Witness ==
    /\ pc = "done"
    /\ Collected = 3
    /\ Len(batch_log) = 2
    /\ all_results.predictions[1] # all_results.predictions[3]

(* C2: every sample of a batch gets the same transcription time, the batch's
   runtime divided by the number of samples actually in the batch, so the
   times of a batch add up to its runtime; also for a short final batch. *)
C2_TimeDividedByMinibatch ==
    \A k \in 1 .. Len(batch_log) :
        LET e == batch_log[k]
            n == Len(e.audios)
        IN  /\ n >= 1
            /\ Len(e.times) = n
            /\ \A i \in 1 .. n : e.times[i] = Rat(e.runtime, n)
            /\ SumRat(e.times) = <<e.runtime, 1>>

C2_Witness ==
    /\ pc = "done"
    /\ args.batch_size = 2
    /\ \E k \in 1 .. Len(batch_log) :
         /\ Len(batch_log[k].audios) = 1
         /\ batch_log[k].times = <<(<<batch_log[k].runtime, 1>>)>>
    /\ \E k \in 1 .. Len(batch_log) : Len(batch_log[k].audios) = 2

(* C3: in every run that reaches the report step the total transcription
   time is not zero, so the quotient of line 118 is defined, and RTFx is the
   total audio duration divided by the total transcription time. *)
C3_RTFxDefined ==
    /\ pc = "metrics" => SumRat(all_results.transcription_time_s)[1] # 0
    /\ failure.kind # "ZeroDivisionError"
    /\ pc = "done" =>
         LET t == SumRat(all_results.transcription_time_s)
         IN  rtfx = Rat(SumInt(all_results.audio_length_s) * t[2], t[1])

(* C4: the samples evaluated are the first max_eval_samples samples of the
   loaded dataset (all of them when it is shorter) when the cap is positive,
   and the whole loaded dataset when the cap is absent, zero or negative; the
   number of collected results never exceeds a positive cap. *)
C4_SampleCap ==
    LET expected == IF Positive(Cap) THEN Min(Val(Cap), Len(loaded)) ELSE Len(loaded)
    IN  /\ pc \in {"prepare_data", "map", "collect"} \cup AfterCollect =>
             /\ Len(dataset) = expected
             /\ \A i \in 1 .. Len(dataset) :
                  dataset[i].id = loaded[i].id /\ dataset[i].audio = loaded[i].audio
        /\ pc \in AfterCollect =>
             /\ Collected = expected
             /\ \A i \in 1 .. Collected :
                  all_results.audio_length_s[i] = loaded[i].audio_length_s
                  /\ all_results.references[i] = Normalizer(loaded[i].text)
        /\ Positive(Cap) => Collected <= Val(Cap)

C4_Witness ==
    /\ pc = "done"
    /\ Cap = Some(2)
    /\ Len(loaded) = 3
    /\ Collected = 2

(* C5: with a model that can generate, a batch holding an audio longer than
   n_samples, at whatever position, takes the untruncated long-form path and
   a batch of audios within n_samples takes the fixed-length path; with a
   model that cannot generate every batch takes the untruncated path and
   n_samples is not consulted. *)
C5_PathByAudioLength ==
    \A k \in 1 .. Len(batch_log) :
        LET e == batch_log[k]
            long == \E i \in 1 .. Len(e.audios) : e.audios[i] > n_samples
        IN  IF model.can_generate
            THEN e.path = (IF long THEN "untruncated" ELSE "fixed_length")
            ELSE e.path = "untruncated" /\ ~e.consulted_n_samples

BeforeManifest ==
    {"load_model", "gen_kwargs", "load_data", "prepare_data", "map", "collect"}

Ops(S) == SelectSeq(events, LAMBDA ev : ev.op \in S)

(* C6: a failure at any stage ends the run there: the script is in no later
   stage, a failure before the manifest write (so any failure of a batch)
   leaves no manifest, no printed path, no metric and no summary, a failed
   manifest write leaves no manifest, and no failed run prints the summary. *)
C6_FailureEndsRun ==
    failure.stage # "none" =>
        /\ pc = "aborted"
        /\ Ops({"print_summary"}) = <<>>
        /\ failure.stage \in BeforeManifest \cup {"write_manifest"} =>
             /\ manifest = <<>>
             /\ Ops({"write_manifest", "print_path", "wer"}) = <<>>
        /\ failure.stage \in {"map", "collect"} => Collected < Len(dataset)

C6_Witness ==
    /\ pc = "aborted"
    /\ failure = [stage |-> "collect", kind |-> "LibraryError"]
    /\ Len(batch_log) = 1
    /\ Collected = 2
    /\ Len(dataset) = 3

(* C7: the manifest is written at most once, only after every batch has been
   processed and every row collected, and holds the complete lists; WER is
   computed once, over the complete lists; the order is manifest, printed
   path, WER, summary, and a completed run has done all four. *)
C7_ReportOrder ==
    LET n == Len(dataset)
        report == <<[op |-> "write_manifest", n |-> n], [op |-> "print_path", n |-> 1],
                    [op |-> "wer", n |-> n], [op |-> "print_summary", n |-> 1]>>
        done == Ops({"write_manifest", "print_path", "wer", "print_summary"})
    IN  /\ Len(manifest) <= 1
        /\ Len(done) <= 4
        /\ done = SubSeq(report, 1, Len(done))
        /\ pc \in BeforeManifest \cup {"write_manifest"} => done = <<>>
        /\ manifest # <<>> =>
             /\ cursor = n /\ mapped = <<>> /\ Collected = n
             /\ manifest[1] = all_results
        /\ pc = "metrics" => Len(manifest) = 1 /\ Len(done) = 2
        /\ pc = "done" => Len(manifest) = 1 /\ done = report

C7_Witness ==
    /\ pc = "done"
    /\ Len(batch_log) = 2
    /\ Len(manifest[1].predictions) = 3
    /\ args.streaming

(* C8: the streaming flag main sees is false exactly when --no-streaming was
   given; set_defaults(streaming=False) after parse_args changes the parser's
   default and not the parsed value. *)
C8_StreamingFlag ==
    /\ pc # "parse_args" => (args.streaming <=> ~argv.no_streaming)
    /\ pc \notin {"parse_args", "set_defaults"} => ~parser_defaults.streaming

C8_Witness ==
    /\ pc = "load_model"
    /\ ~argv.no_streaming
    /\ args.streaming
    /\ ~parser_defaults.streaming

(* C9: what benchmark produces for a batch depends on the batch and on the
   fixed configuration only: two calls on batches with the same audios give
   the same predictions by the same paths, each call's references are its
   own samples' normalized texts, and every call sees the gen_kwargs the
   setup left, which no call changes. *)
C9_BatchIndependent ==
    /\ \A k \in 1 .. Len(batch_log) :
         /\ batch_log[k].references = batch_log[k].norm_text
         /\ batch_log[k].gen_kwargs = gen_kwargs
    /\ \A k, l \in 1 .. Len(batch_log) :
         batch_log[k].audios = batch_log[l].audios =>
             /\ batch_log[k].predictions = batch_log[l].predictions
             /\ batch_log[k].path = batch_log[l].path
             /\ batch_log[k].branch = batch_log[l].branch

C9_Witness ==
    /\ pc = "done"
    /\ Len(batch_log) = 3
    /\ batch_log[1].audios = batch_log[3].audios
    /\ batch_log[1].audios # batch_log[2].audios
    /\ batch_log[1].predictions = batch_log[3].predictions
    /\ model.can_generate

(* C10: gen_kwargs is never read unbound: it is bound exactly when the model
   can generate, only the generation branch reads it, and every batch of a
   run takes the one branch the model's can_generate selects. *)
C10_GenKwargsBound ==
    /\ failure.kind # "NameError"
    /\ pc \notin {"parse_args", "set_defaults", "load_model", "gen_kwargs"} =>
         (gen_kwargs.bound <=> model.can_generate)
    /\ \A k \in 1 .. Len(batch_log) :
         LET e == batch_log[k]
         IN  /\ e.branch = (IF model.can_generate THEN "generate" ELSE "forward_argmax")
             /\ e.read_gen_kwargs <=> e.branch = "generate"
             /\ e.read_gen_kwargs => e.gen_kwargs.bound
             /\ e.branch = batch_log[1].branch

C10_Witness ==
    /\ pc = "done"
    /\ Len(batch_log) = 2
    /\ batch_log[2].branch = "generate"
    /\ batch_log[2].gen_kwargs = [bound |-> TRUE, keys |-> {"max_new_tokens"}]

====
